---- MODULE Spec2Model ----
(***************************************************************************)
(* Model of the FloatMagic core: the allocator-backed ArrayList and the    *)
(* MemoryBuffer cursor of mj_common.h, and the task / completion-port      *)
(* event loop of MainWindow::Run.                                          *)
(*                                                                         *)
(* The specifications share the variables below:                           *)
(*   ListSpec  the operations of one mj::ArrayList<T>                      *)
(*   AssignSpec  the same with Assign added                                *)
(*   AddSpec   Add calls only, on a larger heap                            *)
(*   BufSpec   the operations of one mj::MemoryBuffer                      *)
(*   Spec      MainWindow::Run with the thread pool (FairSpec adds the     *)
(*             scheduling fairness, WaitFairSpec only a fair wait,         *)
(*             FaultSpec a completion port whose dequeue can fail)         *)
(*   SeededSpec  an ArrayList constructed with an initial capacity         *)
(*   LegacySpec  the Direct2D resources of the legacy entry point main.cpp *)
(* Each specification leaves the other components' variables at rest.      *)
(***************************************************************************)
EXTENDS Integers, Sequences, FiniteSets, TLC

VARIABLES
  \* mj::ArrayList<T>
  pData,        \* storage pointer: nullptr or the id of a heap block
  numElements,  \* uint32_t numElements
  capacity,     \* uint32_t capacity
  data,         \* contents of the block pData points to, one entry per slot
  last,         \* the last ArrayList call: its name, arguments and result
  netCount,     \* elements put in minus elements taken out since the last Clear
  heapMax,      \* the largest block, in slots, the allocator can serve
  \* mj::MemoryBuffer
  position,     \* char* position
  end,          \* char* end
  bufBegin,     \* the pBegin the cursor was constructed with
  mem,          \* the bytes of memory from bufBegin on
  failed,       \* some operation on the cursor has failed its size check
  leftAtFail,   \* SizeLeft() just before the first failed operation (-1: none)
  lastBuf,      \* the last MemoryBuffer call: its name, byte count and outcome
  \* MainWindow::Run and the thread pool
  pc,           \* where the main thread is in MainWindow::Run
  taskState,    \* lifecycle state of every task
  iocp,         \* completion packets queued on the completion port, oldest first
  msgQueue,     \* the thread's window message queue, oldest first
  pTask,        \* the task pointer the event loop holds (0: none)
  execCount,    \* how many times Execute has been entered, per task
  doneCount,    \* how many times OnDone has been entered, per task
  doneBy,       \* the thread and place of every OnDone call made so far
  running,      \* the OnDone calls in progress
  msg,          \* MSG msg of Run: the message PeekMessageW removed last
  posted,       \* the tasks in the order their completion packets were posted
  ended,        \* the tasks in the order their OnDone calls began
  out,          \* the output fields of every task: unset, or what Execute stored
  provided,     \* what the OnDone calls have handed to svc::Provide* / MainWindow
  touched,      \* the accesses made to the fields of the tasks
  pool,         \* the scheduler: "none", "up" after ThreadpoolInit, "destroyed"
  freed,        \* how many times every task has been released
  allocator,    \* the HeapAllocator local of Run: "alive", or "ended"
  frees,        \* the Free calls made through svc::GeneralPurposeAllocator()
  failure,      \* the last failure a call of the loop reported ("none": none yet)
  \* the legacy entry point, main.cpp
  s_pRenderTarget,  \* ID2D1HwndRenderTarget*: "null", "live", or "released"
  s_pBrush,         \* ID2D1SolidColorBrush*, likewise
  phase,        \* where WinMainCRTStartup is: "startup", "loop", "cleanup", ...
  derefs        \* the calls made through the two pointers

listVars == <<pData, numElements, capacity, data, last, netCount, heapMax>>
bufVars  == <<position, end, bufBegin, mem, failed, leftAtFail, lastBuf>>
legacyVars == <<s_pRenderTarget, s_pBrush, phase, derefs>>
poolVars == <<pc, taskState, iocp, msgQueue, pTask, execCount, doneCount, doneBy, running,
              msg, posted, ended, out, provided, touched, pool, freed, allocator, frees, failure>>
vars     == <<pData, numElements, capacity, data, last, netCount, heapMax,
              position, end, bufBegin, mem, failed, leftAtFail, lastBuf,
              pc, taskState, iocp, msgQueue, pTask, execCount, doneCount, doneBy, running,
              msg, posted, ended, out, provided, touched, pool, freed, allocator, frees, failure,
              s_pRenderTarget, s_pBrush, phase, derefs>>

(***************************************************************************)
(* Bounds of the model.                                                    *)
(***************************************************************************)
\* uint32_t is modelled with UintBits bits: sums wrap modulo 2^UintBits.
UintBits == 5
\* The allocator serves no request above MaxCap slots (it returns null).
MaxCap == 4
\* The same limit where only Add is called on the array.
MaxAddCap == 8
\* Element counts passed to Reserve / Insert / Erase: 0..MaxNum, and UINT_MAX.
MaxNum == 2
\* Element values are 1..NumVals.
NumVals == 2
\* A MemoryBuffer is constructed over a range of 0..MaxBuf bytes.
MaxBuf == 8
\* Element counts passed to the array operations of MemoryBuffer: 0..MaxElems,
\* and one count whose byte size wraps.
MaxElems == 3
\* size_t is modelled with SizeBits bits.
SizeBits == 5
\* The window message queue holds at most MaxQueue messages.
MaxQueue == 2
\* The OnDone calls up to which a dequeue from the port can still fail.
MaxEnded == 2

Modulus == 2 ^ UintBits
UintMax == Modulus - 1
U32(x)  == x % Modulus
\* netCount is followed up to MaxNet: one wrapped sum from any size.
MaxNet == UintMax + MaxCap

Val == 1..NumVals
\* The content of a slot nothing was ever stored in.
Uninit == 0
nullptr == 0

(***************************************************************************)
(* mj::ArrayList<T>.  A list is the record of its four fields; the         *)
(* element size TSize is one unit.  A pointer into the storage is the      *)
(* pair of the block and the slot index.                                   *)
(***************************************************************************)
Ptr(base, off) == [base |-> base, off |-> off]
NullPtr == Ptr(nullptr, 0)
IsNull(p) == p.base = nullptr /\ p.off = 0

List(p, n, c, d) == [pData |-> p, numElements |-> n, capacity |-> c, data |-> d]

\* ArrayList(Allocator*): no allocation on construction.
EmptyList == List(nullptr, 0, 0, <<>>)

\* ArrayList(Allocator*, uint32_t capacity): the capacity is stored and
\* pData is whatever Allocate(capacity * TSize) returned, ptr.
SeededList(ptr, cap) ==
  List(ptr, 0, cap, IF ptr # nullptr THEN [i \in 1..cap |-> Uninit] ELSE <<>>)

Size(L) == L.numElements
Capacity(L) == L.capacity
begin(L) == Ptr(L.pData, 0)
endPtr(L) == Ptr(L.pData, Size(L))

\* The slot with 0-based index i; a slot outside the block reads as garbage.
At(d, i) == IF i >= 0 /\ i < Len(d) THEN d[i + 1] ELSE Uninit

\* Elements [0, numElements) of the storage.
Live(L) == [i \in 1..L.numElements |-> At(L.data, i - 1)]

\* Allocator::Allocate as the environment decides it: a block other than the
\* one still held, or null.  Requests above heapMax slots always fail.
Allocate(L, size, allocOk) ==
  IF allocOk /\ size <= heapMax
  THEN (IF L.pData = 1 THEN 2 ELSE 1)
  ELSE nullptr

\* Expand storing the new capacity and pointer before it tests the pointer.
ExpandStoresFirst(L, newCapacity, allocOk) ==
  LET ptr == Allocate(L, newCapacity, allocOk) IN
  IF ptr # nullptr
  THEN [ok |-> TRUE,
        L  |-> List(ptr, L.numElements, newCapacity,
                    [i \in 1..newCapacity |->
                       IF i <= L.numElements THEN At(L.data, i - 1) ELSE Uninit])]
  ELSE [ok |-> FALSE, L |-> List(nullptr, L.numElements, newCapacity, <<>>)]

\* Expand without the memcpy of the elements to the new block.
ExpandWithoutCopy(L, newCapacity, allocOk) ==
  LET ptr == Allocate(L, newCapacity, allocOk) IN
  IF ptr # nullptr
  THEN [ok |-> TRUE,
        L  |-> List(ptr, L.numElements, newCapacity, [i \in 1..newCapacity |-> Uninit])]
  ELSE [ok |-> FALSE, L |-> L]

\* bool Expand(uint32_t newCapacity)
Expand(L, newCapacity, allocOk) ==
  LET ptr == Allocate(L, newCapacity, allocOk) IN
  IF ptr # nullptr
  THEN \* memcpy(ptr, pData, numElements); Free(pData); capacity; pData
       [ok |-> TRUE,
        L  |-> List(ptr, L.numElements, newCapacity,
                    [i \in 1..newCapacity |->
                       IF i <= L.numElements THEN At(L.data, i - 1) ELSE Uninit])]
  ELSE \* pData stays valid
       [ok |-> FALSE, L |-> L]

\* Double growing by one slot.
DoubleGrowsByOne(L, allocOk) == Expand(L, U32(L.capacity + 1), allocOk)

\* Double starting from two slots.
DoubleSeedsTwo(L, allocOk) ==
  IF L.capacity = 0
  THEN Expand(L, 2, allocOk)
  ELSE Expand(L, U32(2 * L.capacity), allocOk)

\* bool Double()
Double(L, allocOk) ==
  IF L.capacity = 0
  THEN Expand(L, 4, allocOk)
  ELSE Expand(L, U32(2 * L.capacity), allocOk)

\* The result of a call: the list after it, the returned pointer (or bool),
\* whether an allocation was tried and failed, and whether a slot outside
\* the block was touched.
Result(L, ret, allocFailed, oob) ==
  [L |-> L, ret |-> ret, allocFailed |-> allocFailed, oob |-> oob]

\* T* Reserve(uint32_t num)
RECURSIVE Reserve(_, _, _)
Reserve(L, num, allocOk) ==
  IF num = 0
  THEN Result(L, NullPtr, FALSE, FALSE)
  ELSE IF U32(L.numElements + num) <= L.capacity
       THEN Result([L EXCEPT !.numElements = U32(L.numElements + num)],
                   Ptr(L.pData, L.numElements), FALSE, FALSE)
       ELSE LET e == Expand(L, U32(L.numElements + num), allocOk) IN
            IF e.ok
            THEN Reserve(e.L, num, allocOk)
            ELSE Result(e.L, NullPtr, TRUE, FALSE)

\* The storage after memmove(end() + num - numMove, ptr, numMove) and
\* memcpy(ptr, pSrc, num), ptr = begin() + pos.  Slots outside the block are
\* not part of it.
InsertData(L, pos, src, num) ==
  LET numMove == U32(L.numElements - pos)
      dst     == L.numElements + num - numMove
  IN [i \in 1..L.capacity |->
        LET j == i - 1 IN
        IF j >= pos /\ j < pos + num THEN src[j - pos + 1]
        ELSE IF j >= dst /\ j < dst + numMove THEN At(L.data, pos + (j - dst))
        ELSE At(L.data, j)]

\* T* Insert(uint32_t position, const T* pSrc, uint32_t num); a null pSrc is
\* srcNull, otherwise pSrc points to the num elements of src.
RECURSIVE Insert(_, _, _, _, _, _)
Insert(L, pos, srcNull, src, num, allocOk) ==
  IF num = 0 THEN Result(L, endPtr(L), FALSE, FALSE)
  ELSE IF srcNull THEN Result(L, NullPtr, FALSE, FALSE)
  ELSE IF pos > L.numElements THEN Result(L, NullPtr, FALSE, FALSE)
  ELSE IF U32(L.numElements + num) <= L.capacity
       THEN Result([L EXCEPT !.data = InsertData(L, pos, src, num),
                             !.numElements = U32(L.numElements + num)],
                   Ptr(L.pData, pos), FALSE,
                   L.numElements + num > L.capacity)
       ELSE LET e == Expand(L, U32(L.numElements + num), allocOk) IN
            IF e.ok
            THEN Insert(e.L, pos, srcNull, src, num, allocOk)
            ELSE Result(e.L, NullPtr, TRUE, FALSE)

\* The storage after memmove(pDst, pSrc, end() - pDst - 1), pDst = begin() +
\* pos and pSrc = pDst + num.
EraseData(L, pos, num) ==
  LET count == L.numElements - pos - 1 IN
  [i \in 1..L.capacity |->
     LET j == i - 1 IN
     IF j >= pos /\ j < pos + count THEN At(L.data, j + num) ELSE At(L.data, j)]

\* T* Erase(uint32_t position, uint32_t num)
Erase(L, pos, num) ==
  IF pos < L.numElements /\ pos + num < L.numElements
  THEN Result([L EXCEPT !.data = EraseData(L, pos, num),
                        !.numElements = L.numElements - num],
              Ptr(L.pData, pos), FALSE,
              pos + num + (L.numElements - pos - 1) > L.capacity)
  ELSE Result(L, NullPtr, FALSE, FALSE)

\* bool Add(const T& t)
RECURSIVE Add(_, _, _)
Add(L, t, allocOk) ==
  IF L.numElements < L.capacity
  THEN Result([L EXCEPT !.data = [L.data EXCEPT ![L.numElements + 1] = t],
                        !.numElements = L.numElements + 1],
              TRUE, FALSE, FALSE)
  ELSE LET e == Double(L, allocOk) IN
       IF e.ok
       THEN Add(e.L, t, allocOk)
       ELSE Result(e.L, FALSE, TRUE, FALSE)

\* void Clear()
Clear(L) == [L EXCEPT !.numElements = 0]

\* ~ArrayList(): the elements are destroyed, the block is freed and the
\* fields are reset.
Destructor(L) == List(nullptr, 0, 0, <<>>)

\* bool Assign(const T* pT, uint32_t length); pT points to the length
\* elements of src.
Assign(L, src, length, allocOk) ==
  LET D == IF L.pData # nullptr THEN Destructor(L) ELSE L
      e == Expand(D, length, allocOk)
  IN IF e.ok
     THEN \* memcpy(pData, pT, length); numElements = length
          Result([e.L EXCEPT !.data = [i \in 1..length |-> src[i]],
                             !.numElements = length],
                 TRUE, FALSE, FALSE)
     ELSE Result(e.L, FALSE, TRUE, FALSE)

(***************************************************************************)
(* The calls on one ArrayList.  last records the call and what it          *)
(* returned; netCount follows the elements the successful calls put in     *)
(* and took out.                                                           *)
(***************************************************************************)
TheList == List(pData, numElements, capacity, data)

\* arg is the element passed to Add (0 for the other calls); grew tells
\* whether the call has moved the elements to a new block.
Call(op, arg, r) ==
  [op |-> op, arg |-> arg, ret |-> r.ret, allocFailed |-> r.allocFailed,
   grew |-> (r.L.pData # pData)]

SetList(L) ==
  /\ pData' = L.pData
  /\ numElements' = L.numElements
  /\ capacity' = L.capacity
  /\ data' = L.data

\* The element counts a caller passes: small ones and UINT_MAX.
Nums == (0..MaxNum) \cup {UintMax}
Positions == 0..(MaxCap + 1)
\* The source ranges a caller passes to Insert, by length.
Sources(num) ==
  IF num > MaxNum THEN {[i \in 1..num |-> 1]} ELSE [1..num -> Val]

\* A list constructed empty, on a heap that serves blocks up to limit slots.
ListStart(limit) ==
  /\ pData = EmptyList.pData
  /\ numElements = EmptyList.numElements
  /\ capacity = EmptyList.capacity
  /\ data = EmptyList.data
  /\ last = Call("new", 0, Result(EmptyList, NullPtr, FALSE, FALSE))
  /\ netCount = 0
  /\ heapMax = limit

\* A list constructed with an initial capacity, on the same heap.
SeededStart ==
  /\ heapMax = MaxCap
  /\ \E cap \in 0..MaxCap, allocOk \in BOOLEAN :
       LET L == SeededList(Allocate(EmptyList, cap, allocOk), cap) IN
       /\ pData = L.pData
       /\ numElements = L.numElements
       /\ capacity = L.capacity
       /\ data = L.data
       /\ last = [op |-> "new", arg |-> cap, ret |-> NullPtr,
                  allocFailed |-> (L.pData = nullptr), grew |-> FALSE]
  /\ netCount = 0

ListInit == ListStart(MaxCap)

DoReserve ==
  \E num \in Nums, allocOk \in BOOLEAN :
    LET r == Reserve(TheList, num, allocOk) IN
    /\ netCount + num <= MaxNet
    /\ SetList(r.L)
    /\ last' = Call("Reserve", 0, r)
    /\ netCount' = IF IsNull(r.ret) THEN netCount ELSE netCount + num
    /\ UNCHANGED <<heapMax, bufVars, poolVars, legacyVars>>

DoInsert ==
  \E pos \in Positions, num \in Nums, srcNull \in BOOLEAN, allocOk \in BOOLEAN :
    \E src \in (IF srcNull THEN {<<>>} ELSE Sources(num)) :
      LET r == Insert(TheList, pos, srcNull, src, num, allocOk) IN
      /\ netCount + num <= MaxNet
      /\ SetList(r.L)
      /\ last' = Call("Insert", 0, r)
      /\ netCount' = IF IsNull(r.ret) THEN netCount ELSE netCount + num
      /\ UNCHANGED <<heapMax, bufVars, poolVars, legacyVars>>

DoErase ==
  \E pos \in Positions, num \in 0..(MaxNum + 1) :
    LET r == Erase(TheList, pos, num) IN
    /\ SetList(r.L)
    /\ last' = Call("Erase", 0, r)
    /\ netCount' = IF IsNull(r.ret) THEN netCount ELSE netCount - num
    /\ UNCHANGED <<heapMax, bufVars, poolVars, legacyVars>>

DoAdd ==
  \E t \in Val, allocOk \in BOOLEAN :
    LET r == Add(TheList, t, allocOk) IN
    /\ netCount + 1 <= MaxNet
    /\ SetList(r.L)
    /\ last' = Call("Add", t, r)
    /\ netCount' = IF r.ret THEN netCount + 1 ELSE netCount
    /\ UNCHANGED <<heapMax, bufVars, poolVars, legacyVars>>

DoClear ==
  /\ SetList(Clear(TheList))
  /\ last' = Call("Clear", 0, Result(TheList, NullPtr, FALSE, FALSE))
  /\ netCount' = 0
  /\ UNCHANGED <<heapMax, bufVars, poolVars, legacyVars>>

\* For Assign, arg is the length passed.
DoAssign ==
  \E length \in Nums, allocOk \in BOOLEAN :
    \E src \in Sources(length) :
      LET r == Assign(TheList, src, length, allocOk) IN
      /\ SetList(r.L)
      /\ last' = Call("Assign", length, r)
      /\ netCount' = IF r.ret THEN length ELSE 0
      /\ UNCHANGED <<heapMax, bufVars, poolVars, legacyVars>>

ListNext ==
  \/ DoReserve
  \/ DoInsert
  \/ DoErase
  \/ DoAdd
  \/ DoClear

(***************************************************************************)
(* mj::MemoryBuffer.  A cursor is the record of its two pointers; an       *)
(* address is a positive integer and nullptr is 0.  Every operation        *)
(* yields the cursor and the memory after it, whether its size check       *)
(* passed, and the pointer it returns (nullptr for the operations that     *)
(* return the cursor).                                                     *)
(***************************************************************************)
Cursor(e, p) == [end |-> e, position |-> p]

\* The address the modelled byte range begins at.
BufBase == 16
\* sizeof(T) of the value types read and written.
SizeOfT == {1, 2, 4, 8}

\* size_t arithmetic: products wrap modulo 2^SizeBits.
SizeModulus == 2 ^ SizeBits
SizeT(x) == x % SizeModulus

\* The bytes of memory from BufBase on, one entry per byte: the range of the
\* cursor and, where the range is shorter than MaxBuf, the bytes behind it.
\* At first every byte holds its own offset.
NewMemory == [i \in 1..MaxBuf |-> i]
\* The bytes the callers pass and the constructors store all hold one value,
\* which no byte of the memory holds at first.
Stored == MaxBuf + 1
\* The value of the caller's object t of n bytes before a call.
Object(n) == [i \in 1..n |-> Stored]
\* The bytes of the caller's array pData of n bytes passed to Write.
Bytes(n) == [i \in 1..n |-> Stored]
\* The bytes of num objects of sizeofT bytes built by placement new.
NewObjects(num, sizeofT) == [i \in 1..(num * sizeofT) |-> Stored]

\* memcpy(&t, addr, n): the n bytes at addr.
Load(m, addr, n) == [i \in 1..n |-> m[addr - BufBase + i]]
\* memcpy(addr, bytes, Len(bytes)); bytes stored behind the modelled memory
\* are not part of it.
Store(m, addr, bytes) ==
  [i \in 1..Len(m) |->
     LET k == i - (addr - BufBase) IN
     IF k >= 1 /\ k <= Len(bytes) THEN bytes[k] ELSE m[i]]

\* MemoryBuffer(void* pBegin, size_t size)
NewMemoryBuffer(pBegin, size) == Cursor(pBegin + size, pBegin)

\* size_t SizeLeft()
SizeLeft(B) == B.end - B.position

\* Good() also asking for bytes left.
GoodNeedsSpace(B) == B.end # nullptr /\ B.position # nullptr /\ B.position < B.end

\* bool Good()
Good(B) == B.end # nullptr /\ B.position # nullptr

\* The outcome of a call: the cursor and the memory after it, whether its
\* size check passed, the pointer it returns, the caller's object t after
\* it, and whether it stored bytes outside [position, end).
BufResult(B, fit, ret, m, t, oob) ==
  [B |-> B, fit |-> fit, ret |-> ret, m |-> m, t |-> t, oob |-> oob]

\* this->end = nullptr; this->position = nullptr;
Poison(B) == Cursor(nullptr, nullptr)

\* MemoryBuffer& operator>>(T& t)
ShiftRight(B, m, t, sizeofT) ==
  IF SizeLeft(B) >= sizeofT
  THEN BufResult([B EXCEPT !.position = B.position + sizeofT], TRUE, nullptr,
                 m, Load(m, B.position, sizeofT), FALSE)
  ELSE BufResult(Poison(B), FALSE, nullptr, m, t, FALSE)

\* Write advancing the position before it copies the value.
WriteAfterAdvance(B, m, t, sizeofT) ==
  IF SizeLeft(B) >= sizeofT
  THEN BufResult([B EXCEPT !.position = B.position + sizeofT], TRUE, nullptr,
                 Store(m, B.position + sizeofT, t), t, FALSE)
  ELSE BufResult(Poison(B), FALSE, nullptr, m, t, FALSE)

\* MemoryBuffer& Write(T& t)
Write(B, m, t, sizeofT) ==
  IF SizeLeft(B) >= sizeofT
  THEN BufResult([B EXCEPT !.position = B.position + sizeofT], TRUE, nullptr,
                 Store(m, B.position, t), t, FALSE)
  ELSE BufResult(Poison(B), FALSE, nullptr, m, t, FALSE)

\* MemoryBuffer& Write(void* pData, size_t size)
WriteBytes(B, m, src, size) ==
  IF SizeLeft(B) >= size
  THEN BufResult([B EXCEPT !.position = B.position + size], TRUE, nullptr,
                 Store(m, B.position, src), <<>>, FALSE)
  ELSE BufResult(Poison(B), FALSE, nullptr, m, <<>>, FALSE)

\* MemoryBuffer& Read(T& t)
Read(B, m, t, sizeofT) ==
  IF SizeLeft(B) >= sizeofT
  THEN BufResult([B EXCEPT !.position = B.position + sizeofT], TRUE, nullptr,
                 m, Load(m, B.position, sizeofT), FALSE)
  ELSE BufResult(Poison(B), FALSE, nullptr, m, t, FALSE)

\* MemoryBuffer& Skip(size_t numBytes)
Skip(B, m, numBytes) ==
  IF SizeLeft(B) >= numBytes
  THEN BufResult([B EXCEPT !.position = B.position + numBytes], TRUE, nullptr,
                 m, <<>>, FALSE)
  ELSE BufResult(Poison(B), FALSE, nullptr, m, <<>>, FALSE)

\* T* ReserveArrayUnaligned(size_t numElements)
ReserveArrayUnaligned(B, m, num, sizeofT) ==
  IF SizeLeft(B) >= SizeT(num * sizeofT)
  THEN BufResult([B EXCEPT !.position = B.position + SizeT(num * sizeofT)],
                 TRUE, B.position, m, <<>>, FALSE)
  ELSE BufResult(Poison(B), FALSE, nullptr, m, <<>>, FALSE)

\* T* NewUnaligned(Args... args)
NewUnaligned(B, m, sizeofT) ==
  IF SizeLeft(B) >= sizeofT
  THEN BufResult([B EXCEPT !.position = B.position + sizeofT], TRUE, B.position,
                 Store(m, B.position, NewObjects(1, sizeofT)), <<>>, FALSE)
  ELSE BufResult(Poison(B), FALSE, nullptr, m, <<>>, FALSE)

\* T* NewArrayUnaligned(size_t numElements): the loop builds numElements
\* objects from the old position on, whatever the size check compared.
NewArrayUnaligned(B, m, num, sizeofT) ==
  IF SizeLeft(B) >= SizeT(num * sizeofT)
  THEN BufResult([B EXCEPT !.position = B.position + SizeT(num * sizeofT)],
                 TRUE, B.position,
                 Store(m, B.position, NewObjects(num, sizeofT)), <<>>,
                 B.position + num * sizeofT > B.end)
  ELSE BufResult(Poison(B), FALSE, nullptr, m, <<>>, FALSE)

TheBuffer == Cursor(end, position)

\* One call on the cursor: op needing `need` bytes, with result r.
BufCall(op, need, r) ==
  /\ position' = r.B.position
  /\ end' = r.B.end
  /\ mem' = r.m
  /\ failed' = (failed \/ ~r.fit)
  /\ leftAtFail' = IF ~failed /\ ~r.fit THEN SizeLeft(TheBuffer) ELSE leftAtFail
  /\ lastBuf' = [op |-> op, need |-> need, fit |-> r.fit, ret |-> r.ret,
                 t |-> r.t, oob |-> r.oob, afterFail |-> failed]
  /\ UNCHANGED <<bufBegin, listVars, poolVars, legacyVars>>

BufInit ==
  \E size \in 0..MaxBuf :
    /\ bufBegin = BufBase
    /\ position = NewMemoryBuffer(BufBase, size).position
    /\ end = NewMemoryBuffer(BufBase, size).end
    /\ mem = NewMemory
    /\ failed = FALSE
    /\ leftAtFail = -1
    /\ lastBuf = [op |-> "new", need |-> 0, fit |-> TRUE, ret |-> nullptr,
                  t |-> <<>>, oob |-> FALSE, afterFail |-> FALSE]

\* The element counts a caller passes: small ones, and the smallest count
\* whose byte size, for 8-byte elements, is 2^SizeBits.
Elems == (0..MaxElems) \cup {SizeModulus \div 8}

DoShiftRight ==
  \E sizeofT \in SizeOfT :
    BufCall(">>", sizeofT, ShiftRight(TheBuffer, mem, Object(sizeofT), sizeofT))

DoWrite ==
  \E sizeofT \in SizeOfT :
    BufCall("Write", sizeofT, Write(TheBuffer, mem, Object(sizeofT), sizeofT))

DoWriteBytes ==
  \E size \in 0..(MaxBuf + 1) :
    BufCall("WriteBytes", size, WriteBytes(TheBuffer, mem, Bytes(size), size))

DoRead ==
  \E sizeofT \in SizeOfT :
    BufCall("Read", sizeofT, Read(TheBuffer, mem, Object(sizeofT), sizeofT))

DoSkip ==
  \E numBytes \in 0..(MaxBuf + 1) :
    BufCall("Skip", numBytes, Skip(TheBuffer, mem, numBytes))

DoReserveArrayUnaligned ==
  \E num \in Elems, sizeofT \in SizeOfT :
    BufCall("ReserveArrayUnaligned", num * sizeofT,
            ReserveArrayUnaligned(TheBuffer, mem, num, sizeofT))

DoNewUnaligned ==
  \E sizeofT \in SizeOfT :
    BufCall("NewUnaligned", sizeofT, NewUnaligned(TheBuffer, mem, sizeofT))

DoNewArrayUnaligned ==
  \E num \in Elems, sizeofT \in SizeOfT :
    BufCall("NewArrayUnaligned", num * sizeofT,
            NewArrayUnaligned(TheBuffer, mem, num, sizeofT))

BufNext ==
  \/ DoShiftRight
  \/ DoWrite
  \/ DoWriteBytes
  \/ DoRead
  \/ DoSkip
  \/ DoReserveArrayUnaligned
  \/ DoNewUnaligned
  \/ DoNewArrayUnaligned

(***************************************************************************)
(* MainWindow::Run and the thread pool.  Threadpool.h / Threadpool.cpp are *)
(* not part of the sources at hand: ThreadpoolInit, ThreadpoolCreateTask,  *)
(* ThreadpoolSubmitTask, the worker and ThreadpoolTaskEnd follow the       *)
(* specification's sections 4.3 and 6.                                     *)
(***************************************************************************)
\* The tasks MainWindow::Run creates and submits, in this order.
NumTasks == 3
Tasks == 1..NumTasks
NoTask == 0

\* The lifecycle of a task; "None" is a task not yet allocated.
Lifecycle == <<"None", "Created", "Queued", "Executing", "CompletionPending", "Completed">>
Rank(st) == CHOOSE i \in 1..Len(Lifecycle) : Lifecycle[i] = st

\* What the Execute of task t stores in its output fields (pWicFactory,
\* pRenderTarget and pDCompDevice, pDWriteFactory).
Made(t) == <<"made", t>>
\* An output field Execute has not stored to (MJ_UNINITIALIZED).
Unset == <<"unset", 0>>

\* The process has ended: Run has returned, or an execution phase was fatal.
Ended == pc \in {"done", "dead"}

PoolInit ==
  /\ pc = "init"
  /\ taskState = [t \in Tasks |-> "None"]
  /\ iocp = <<>>
  /\ msgQueue = <<>>
  /\ pTask = NoTask
  /\ execCount = [t \in Tasks |-> 0]
  /\ doneCount = [t \in Tasks |-> 0]
  /\ doneBy = {}
  /\ running = {}
  /\ msg = "none"
  /\ posted = <<>>
  /\ ended = <<>>
  /\ out = [t \in Tasks |-> Unset]
  /\ provided = {}
  /\ touched = {}
  /\ pool = "none"
  /\ freed = [t \in Tasks |-> 0]
  /\ allocator = "alive"
  /\ frees = {}
  /\ failure = "none"

\* mj::ThreadpoolInit(iocp)
ThreadpoolInit ==
  /\ pc = "init"
  /\ pc' = "create"
  /\ pool' = "up"
  /\ UNCHANGED <<taskState, iocp, msgQueue, pTask, execCount, doneCount, doneBy, running, listVars, bufVars, legacyVars, failure, allocator, frees, freed,
               msg, posted, ended, out, provided, touched>>

\* mj::ThreadpoolCreateTask<T>(): the next task of Run is allocated.
ThreadpoolCreateTask ==
  /\ pc = "create"
  /\ \E t \in Tasks :
       /\ taskState[t] = "None"
       /\ \A u \in Tasks : u < t => taskState[u] # "None"
       /\ taskState' = [taskState EXCEPT ![t] = "Created"]
       /\ pTask' = t
  /\ pc' = "submit"
  /\ UNCHANGED <<iocp, msgQueue, execCount, doneCount, doneBy, running, listVars, bufVars, legacyVars, failure, allocator, frees, pool, freed,
               msg, posted, ended, out, provided, touched>>

\* mj::ThreadpoolSubmitTask(pTask): the pool takes the task.
Submitted(t) == [taskState EXCEPT ![t] = "Queued"]

\* An access to the fields of task t: by which thread, to the input or the
\* output fields, reading or writing, in which lifecycle state of the task.
Access(t, thread, field, mode) ==
  [task |-> t, thread |-> thread, field |-> field, mode |-> mode, st |-> taskState[t],
   freed |-> freed[t]]

\* The body of OnDone: the output fields are read and handed to
\* svc::ProvideWicFactory, MainWindow::OnCreateID2D1RenderTarget or
\* svc::ProvideDWriteFactory.
OnDone(t) ==
  /\ provided' = provided \cup {[task |-> t, value |-> out[t], st |-> taskState[t]]}
  /\ touched' = touched \cup {Access(t, "main", "in", "read"), Access(t, "main", "out", "read")}

\* An OnDone call by `thread` at place `at` of its code begins.
OnDoneBegins(t, thread, at) ==
  /\ doneCount' = [doneCount EXCEPT ![t] = @ + 1]
  /\ doneBy' = doneBy \cup {[task |-> t, thread |-> thread, at |-> at]}
  /\ running' = running \cup {t}
  /\ ended' = Append(ended, t)
  /\ OnDone(t)

RunSubmitInline ==
  /\ pc = "submit"
  /\ taskState' = Submitted(pTask)
  /\ OnDoneBegins(pTask, "main", "submit")
  /\ pTask' = NoTask
  /\ pc' = IF pTask = NumTasks THEN "startup" ELSE "create"
  /\ UNCHANGED <<iocp, msgQueue, execCount, listVars, bufVars, legacyVars, failure, allocator, frees, pool, freed, msg, posted, out>>

\* Run setting the input fields after the submission.
RunWritesAfterSubmit ==
  /\ pc = "submit"
  /\ touched' = touched \cup {[task |-> pTask, thread |-> "main", field |-> "in",
                                mode |-> "write", st |-> "Queued",
                                freed |-> freed[pTask]]}
  /\ taskState' = Submitted(pTask)
  /\ pTask' = NoTask
  /\ pc' = IF pTask = NumTasks THEN "startup" ELSE "create"
  /\ UNCHANGED <<iocp, msgQueue, execCount, doneCount, doneBy, running, listVars, bufVars, legacyVars, failure, allocator, frees, pool, freed,
               msg, posted, ended, out, provided>>

\* Run handing the output fields on right after the submission.
RunSubmitPublishes ==
  /\ pc = "submit"
  /\ touched' = touched \cup {Access(pTask, "main", "in", "write")}
  /\ provided' = provided \cup {[task |-> pTask, value |-> out[pTask], st |-> "Queued"]}
  /\ taskState' = Submitted(pTask)
  /\ pTask' = NoTask
  /\ pc' = IF pTask = NumTasks THEN "startup" ELSE "create"
  /\ UNCHANGED <<iocp, msgQueue, execCount, doneCount, doneBy, running, listVars, bufVars, legacyVars, failure, allocator, frees, pool, freed,
               msg, posted, ended, out>>

\* Run, "Start a bunch of tasks": the input fields are set and the task is
\* submitted; after the last one Run goes on with its start-up.
RunSubmit ==
  /\ pc = "submit"
  /\ touched' = touched \cup {Access(pTask, "main", "in", "write")}
  /\ taskState' = Submitted(pTask)
  /\ pTask' = NoTask
  /\ pc' = IF pTask = NumTasks THEN "startup" ELSE "create"
  /\ UNCHANGED <<iocp, msgQueue, execCount, doneCount, doneBy, running, listVars, bufVars, legacyVars, failure, allocator, frees, pool, freed,
               msg, posted, ended, out, provided>>

\* A start-up that takes a completion packet before the loop is entered.
RunStartupDispatches ==
  /\ pc = "startup"
  /\ IF iocp # <<>>
     THEN /\ pTask' = Head(iocp)
          /\ iocp' = Tail(iocp)
          /\ pc' = "taskEnd"
     ELSE /\ pTask' = pTask
          /\ iocp' = iocp
          /\ pc' = "wait"
  /\ UNCHANGED <<taskState, msgQueue, execCount, doneCount, doneBy, running, listVars, bufVars, legacyVars, failure, allocator, frees, pool, freed,
               msg, posted, ended, out, provided, touched>>

\* Run from res::d2d1::Init to CreateWindowExW, up to the message loop.
RunStartup ==
  /\ pc = "startup"
  /\ pc' = "wait"
  /\ UNCHANGED <<taskState, iocp, msgQueue, pTask, execCount, doneCount, doneBy, running, listVars, bufVars, legacyVars, failure, allocator, frees, pool, freed,
               msg, posted, ended, out, provided, touched>>

\* A worker thread takes a queued task and enters its Execute.
WorkerExecute(t) ==
  /\ ~Ended
  /\ taskState[t] = "Queued"
  /\ taskState' = [taskState EXCEPT ![t] = "Executing"]
  /\ execCount' = [execCount EXCEPT ![t] = @ + 1]
  /\ UNCHANGED <<pc, iocp, msgQueue, pTask, doneCount, doneBy, running, listVars, bufVars, legacyVars, failure, allocator, frees, pool, freed,
               msg, posted, ended, out, provided, touched>>

\* Execute stores the output fields and returns; the worker posts the
\* completion packet of the task.
WorkerPost(t) ==
  /\ ~Ended
  /\ taskState[t] = "Executing"
  /\ out' = [out EXCEPT ![t] = Made(t)]
  /\ touched' = touched \cup {Access(t, "worker", "out", "write")}
  /\ taskState' = [taskState EXCEPT ![t] = "CompletionPending"]
  /\ iocp' = Append(iocp, t)
  /\ posted' = Append(posted, t)
  /\ UNCHANGED <<pc, msgQueue, pTask, execCount, doneCount, doneBy, running, listVars, bufVars, legacyVars, failure, allocator, frees, pool, freed,
               msg, ended, provided>>

\* A failed step making Execute return early, outputs unset, as an ordinary
\* end of the execution phase.
ExecuteFailsQuietly(t) ==
  /\ ~Ended
  /\ taskState[t] = "Executing"
  /\ taskState' = [taskState EXCEPT ![t] = "CompletionPending"]
  /\ iocp' = Append(iocp, t)
  /\ posted' = Append(posted, t)
  /\ UNCHANGED <<pc, msgQueue, pTask, execCount, doneCount, doneBy, running, listVars, bufVars, legacyVars, failure, allocator, frees, pool, freed,
               msg, ended, out, provided, touched>>

\* MJ_ERR_HRESULT inside Execute sees a failed HRESULT: the process ends.
ExecuteFatal(t) ==
  /\ ~Ended
  /\ taskState[t] = "Executing"
  /\ pc' = "dead"
  /\ UNCHANGED <<taskState, iocp, msgQueue, pTask, execCount, doneCount, doneBy, running, listVars, bufVars, legacyVars, failure, allocator, frees, pool, freed,
               msg, posted, ended, out, provided, touched>>

\* The window messages: two posted ones and the termination message.
Messages == {"WM_APP", "WM_USER", "WM_QUIT"}

\* The system queues a window message for the thread.
PostMessage ==
  /\ ~Ended
  /\ Len(msgQueue) < MaxQueue
  /\ \E m \in Messages : msgQueue' = Append(msgQueue, m)
  /\ UNCHANGED <<pc, taskState, iocp, pTask, execCount, doneCount, doneBy, running, listVars, bufVars, legacyVars, failure, allocator, frees, pool, freed,
               msg, posted, ended, out, provided, touched>>

\* The wait reporting the port whether or not a packet is queued.
WaitIocpSpurious ==
  /\ pc = "wait"
  /\ pc' = "iocp"
  /\ UNCHANGED <<taskState, iocp, msgQueue, pTask, execCount, doneCount, doneBy, running, listVars, bufVars, legacyVars, failure, allocator, frees, pool, freed,
               msg, posted, ended, out, provided, touched>>

\* A wait on the message queue alone: a signalled port is not reported.
WaitOnMessagesOnly ==
  /\ pc = "wait"
  /\ iocp # <<>>
  /\ msgQueue # <<>>
  /\ pc' = "message"
  /\ UNCHANGED <<taskState, iocp, msgQueue, pTask, execCount, doneCount, doneBy, running, listVars, bufVars, legacyVars, failure, allocator, frees, pool, freed,
               msg, posted, ended, out, provided, touched>>

\* MsgWaitForMultipleObjects returns WAIT_OBJECT_0: the port is signalled.
WaitIocp ==
  /\ pc = "wait"
  /\ iocp # <<>>
  /\ pc' = "iocp"
  /\ UNCHANGED <<taskState, iocp, msgQueue, pTask, execCount, doneCount, doneBy, running, listVars, bufVars, legacyVars, failure, allocator, frees, pool, freed,
               msg, posted, ended, out, provided, touched>>

\* MsgWaitForMultipleObjects returns WAIT_OBJECT_0 + 1: input is queued.
WaitMessage ==
  /\ pc = "wait"
  /\ msgQueue # <<>>
  /\ pc' = "message"
  /\ UNCHANGED <<taskState, iocp, msgQueue, pTask, execCount, doneCount, doneBy, running, listVars, bufVars, legacyVars, failure, allocator, frees, pool, freed,
               msg, posted, ended, out, provided, touched>>

DequeueSkipsTaskEnd ==
  /\ pc = "iocp"
  /\ iocp # <<>>
  /\ pTask' = Head(iocp)
  /\ iocp' = Tail(iocp)
  /\ pc' = "wait"
  /\ UNCHANGED <<taskState, msgQueue, execCount, doneCount, doneBy, running, listVars, bufVars, legacyVars, failure, allocator, frees, pool, freed,
               msg, posted, ended, out, provided, touched>>

DequeueKeepsPacket ==
  /\ pc = "iocp"
  /\ iocp # <<>>
  /\ pTask' = Head(iocp)
  /\ pc' = IF Head(iocp) # NoTask THEN "taskEnd" ELSE "wait"
  /\ UNCHANGED <<taskState, iocp, msgQueue, execCount, doneCount, doneBy, running, listVars, bufVars, legacyVars, failure, allocator, frees, pool, freed,
               msg, posted, ended, out, provided, touched>>

\* The loop taking every queued packet and keeping the first.
DequeueDrainsAll ==
  /\ pc = "iocp"
  /\ iocp # <<>>
  /\ pTask' = Head(iocp)
  /\ iocp' = <<>>
  /\ pc' = IF Head(iocp) # NoTask THEN "taskEnd" ELSE "wait"
  /\ UNCHANGED <<taskState, msgQueue, execCount, doneCount, doneBy, running, listVars, bufVars, legacyVars, failure, allocator, frees, pool, freed,
               msg, posted, ended, out, provided, touched>>

\* The loop taking the newest packet.
DequeueNewest ==
  /\ pc = "iocp"
  /\ iocp # <<>>
  /\ pTask' = iocp[Len(iocp)]
  /\ iocp' = SubSeq(iocp, 1, Len(iocp) - 1)
  /\ pc' = IF iocp[Len(iocp)] # NoTask THEN "taskEnd" ELSE "wait"
  /\ UNCHANGED <<taskState, msgQueue, execCount, doneCount, doneBy, running, listVars, bufVars, legacyVars, failure, allocator, frees, pool, freed,
               msg, posted, ended, out, provided, touched>>

\* case WAIT_OBJECT_0: GetQueuedCompletionStatus takes the oldest packet (it
\* blocks while there is none); a non-null pTask goes to ThreadpoolTaskEnd.
GetQueuedCompletionStatus ==
  /\ pc = "iocp"
  /\ iocp # <<>>
  /\ pTask' = Head(iocp)
  /\ iocp' = Tail(iocp)
  /\ pc' = IF Head(iocp) # NoTask THEN "taskEnd" ELSE "wait"
  /\ UNCHANGED <<taskState, msgQueue, execCount, doneCount, doneBy, running, listVars, bufVars, legacyVars, failure, allocator, frees, pool, freed,
               msg, posted, ended, out, provided, touched>>

\* The task released before its OnDone is called.
TaskEndReleasesFirst ==
  /\ pc = "taskEnd"
  /\ freed' = [freed EXCEPT ![pTask] = @ + 1]
  /\ OnDoneBegins(pTask, "main", "taskEnd")
  /\ pc' = "onDone"
  /\ UNCHANGED <<taskState, iocp, msgQueue, pTask, execCount, listVars, bufVars, legacyVars, failure, allocator, frees, pool,
               msg, posted, out>>

\* GetQueuedCompletionStatus returns FALSE with ERROR_ABANDONED_WAIT_0 (the
\* port was closed under the call): Run returns.
DequeueAbandoned ==
  /\ pc = "iocp"
  /\ failure' = "ERROR_ABANDONED_WAIT_0"
  /\ pc' = "exit"
  /\ UNCHANGED <<taskState, iocp, msgQueue, pTask, execCount, doneCount, doneBy, running, listVars, bufVars, legacyVars, allocator, frees, pool, freed,
               msg, posted, ended, out, provided, touched>>

\* What the uninitialised pTask of the IOCP case can hold when the call has
\* stored nothing in it: null, or the address of some task Run has created.
Indeterminate == {NoTask} \cup {t \in Tasks : taskState[t] # "None"}

\* GetQueuedCompletionStatus returns FALSE with any other error: no packet
\* is taken and pTask is not stored, yet "else if (pTask)" reads it.
DequeueFails ==
  /\ pc = "iocp"
  /\ Len(ended) < MaxEnded
  /\ \E p \in Indeterminate :
       /\ pTask' = p
       /\ pc' = IF p # NoTask THEN "taskEnd" ELSE "wait"
  /\ failure' = "ERROR_INVALID_HANDLE"
  /\ UNCHANGED <<taskState, iocp, msgQueue, execCount, doneCount, doneBy, running, listVars, bufVars, legacyVars, allocator, frees, pool, freed,
               msg, posted, ended, out, provided, touched>>

\* MsgWaitForMultipleObjects returns WAIT_FAILED, or any value other than
\* WAIT_OBJECT_0 and WAIT_OBJECT_0 + 1: the switch takes its default case.
WaitFails ==
  /\ pc = "wait"
  /\ failure' = "WAIT_FAILED"
  /\ pc' = "default"
  /\ UNCHANGED <<taskState, iocp, msgQueue, pTask, execCount, doneCount, doneBy, running, listVars, bufVars, legacyVars, allocator, frees, pool, freed,
               msg, posted, ended, out, provided, touched>>

DefaultReturns ==
  /\ pc = "default"
  /\ pc' = "exit"
  /\ UNCHANGED <<taskState, iocp, msgQueue, pTask, execCount, doneCount, doneBy, running, listVars, bufVars, legacyVars, failure, allocator, frees, pool, freed,
               msg, posted, ended, out, provided, touched>>

\* default: break; the loop goes round to the wait.
DefaultBreaks ==
  /\ pc = "default"
  /\ pc' = "wait"
  /\ UNCHANGED <<taskState, iocp, msgQueue, pTask, execCount, doneCount, doneBy, running, listVars, bufVars, legacyVars, failure, allocator, frees, pool, freed,
               msg, posted, ended, out, provided, touched>>

\* mj::ThreadpoolTaskEnd(pTask) is called by the loop: OnDone begins.
ThreadpoolTaskEnd ==
  /\ pc = "taskEnd"
  /\ OnDoneBegins(pTask, "main", "taskEnd")
  /\ pc' = "onDone"
  /\ UNCHANGED <<taskState, iocp, msgQueue, pTask, execCount, listVars, bufVars, legacyVars, failure, allocator, frees, pool, freed,
               msg, posted, out>>

\* OnDone returns, the task is completed, ThreadpoolTaskEnd releases it and
\* the loop waits again.
OnDoneReturns ==
  /\ pc = "onDone"
  /\ running' = running \ {pTask}
  /\ taskState' = [taskState EXCEPT ![pTask] = "Completed"]
  /\ freed' = [freed EXCEPT ![pTask] = @ + 1]
  /\ pTask' = NoTask
  /\ pc' = "wait"
  /\ UNCHANGED <<iocp, msgQueue, execCount, doneCount, doneBy, listVars, bufVars, legacyVars, failure, allocator, frees, pool,
               msg, posted, ended, out, provided, touched>>

\* The case dispatching one message per wait (an if for the while).
PeekMessageOnce ==
  /\ pc = "message"
  /\ IF msgQueue = <<>>
     THEN /\ pc' = "wait"
          /\ msgQueue' = msgQueue
          /\ msg' = msg
     ELSE /\ msgQueue' = Tail(msgQueue)
          /\ msg' = Head(msgQueue)
          /\ pc' = IF Head(msgQueue) = "WM_QUIT" THEN "exit" ELSE "wait"
  /\ UNCHANGED <<taskState, iocp, pTask, execCount, doneCount, doneBy, running, listVars, bufVars, legacyVars, failure, allocator, frees, pool, freed,
               posted, ended, out, provided, touched>>

\* WM_QUIT ending the process at once, without the deferred teardown of Run.
PeekMessageQuitsAtOnce ==
  /\ pc = "message"
  /\ IF msgQueue = <<>>
     THEN /\ pc' = "wait"
          /\ msgQueue' = msgQueue
          /\ msg' = msg
     ELSE /\ msgQueue' = Tail(msgQueue)
          /\ msg' = Head(msgQueue)
          /\ pc' = IF Head(msgQueue) = "WM_QUIT" THEN "done" ELSE "message"
  /\ UNCHANGED <<taskState, iocp, pTask, execCount, doneCount, doneBy, running, listVars, bufVars, legacyVars, failure, allocator, frees, pool, freed,
               posted, ended, out, provided, touched>>

\* case WAIT_OBJECT_0 + 1: one turn of the PeekMessageW loop.  An empty
\* queue ends the loop, WM_QUIT ends Run.
PeekMessage ==
  /\ pc = "message"
  /\ IF msgQueue = <<>>
     THEN /\ pc' = "wait"
          /\ msgQueue' = msgQueue
          /\ msg' = msg
     ELSE \* TranslateMessage, DispatchMessageW, then the test for WM_QUIT
          /\ msgQueue' = Tail(msgQueue)
          /\ msg' = Head(msgQueue)
          /\ pc' = IF Head(msgQueue) = "WM_QUIT" THEN "exit" ELSE "message"
  /\ UNCHANGED <<taskState, iocp, pTask, execCount, doneCount, doneBy, running, listVars, bufVars, legacyVars, failure, allocator, frees, pool, freed,
               posted, ended, out, provided, touched>>

\* The states of a task in which the pool or the port still holds it.
Outstanding == {"Queued", "Executing", "CompletionPending"}

\* Run returns: the deferred mj::ThreadpoolDestroy() runs first.  It blocks
\* while a worker still has a task to execute, then drains the port: the
\* packets left are discarded and their tasks end without a completion phase.
ThreadpoolDestroy ==
  /\ pc = "exit"
  /\ \A t \in Tasks : taskState[t] \notin {"Queued", "Executing"}
  /\ iocp' = <<>>
  /\ taskState' = [t \in Tasks |-> IF taskState[t] = "CompletionPending"
                                     THEN "Completed" ELSE taskState[t]]
  /\ pool' = "destroyed"
  /\ pc' = "closing"
  /\ UNCHANGED <<msgQueue, pTask, execCount, doneCount, doneBy, running, listVars, bufVars, legacyVars, failure, allocator, frees, freed,
               msg, posted, ended, out, provided, touched>>

\* Then the deferred ::CloseHandle(iocp).
CloseHandle ==
  /\ pc = "closing"
  /\ pc' = "closed"
  /\ UNCHANGED <<taskState, iocp, msgQueue, pTask, execCount, doneCount, doneBy, running, listVars, bufVars, legacyVars, failure, allocator, frees, pool, freed,
               msg, posted, ended, out, provided, touched>>

\* The locals of Run go out of scope in the reverse order of their
\* declaration: generalPurposeAllocator, declared after the first MJ_DEFER,
\* ends before that deferred call runs.
AllocatorScopeEnds ==
  /\ pc = "closed"
  /\ allocator' = "ended"
  /\ pc' = "unwound"
  /\ UNCHANGED <<taskState, iocp, msgQueue, pTask, execCount, doneCount, doneBy, running, listVars, bufVars, legacyVars, failure, frees, pool, freed,
               msg, posted, ended, out, provided, touched>>

\* The objects MainWindow::Destroy frees through the allocator.
Objects == {"controls", "pHorizontalLayouts", "pRootControl"}

\* A Free call on the general-purpose allocator, in its state at the call.
Free(obj) == [object |-> obj, allocator |-> allocator]

\* The call deferred first, this->Destroy(), runs last, and Run is over:
\* MainWindow::Destroy frees the controls, the layouts and the root control.
RunReturns ==
  /\ pc = "unwound"
  /\ frees' = frees \cup {Free(obj) : obj \in Objects}
  /\ pc' = "done"
  /\ UNCHANGED <<taskState, iocp, msgQueue, pTask, execCount, doneCount, doneBy, running, listVars, bufVars, legacyVars, failure, allocator, pool, freed,
               msg, posted, ended, out, provided, touched>>

MainThread ==
  \/ ThreadpoolInit
  \/ ThreadpoolCreateTask
  \/ RunSubmit
  \/ RunStartup
  \/ WaitIocp
  \/ WaitMessage
  \/ GetQueuedCompletionStatus
  \/ ThreadpoolTaskEnd
  \/ OnDoneReturns
  \/ PeekMessage
  \/ ThreadpoolDestroy
  \/ CloseHandle
  \/ AllocatorScopeEnds
  \/ RunReturns

PoolNext ==
  \/ ThreadpoolInit
  \/ ThreadpoolCreateTask
  \/ RunSubmit
  \/ RunStartup
  \/ WaitIocp
  \/ WaitMessage
  \/ GetQueuedCompletionStatus
  \/ ThreadpoolTaskEnd
  \/ OnDoneReturns
  \/ PeekMessage
  \/ ThreadpoolDestroy
  \/ CloseHandle
  \/ AllocatorScopeEnds
  \/ RunReturns
  \/ \E t \in Tasks : WorkerExecute(t)
  \/ \E t \in Tasks : WorkerPost(t)
  \/ \E t \in Tasks : ExecuteFatal(t)
  \/ PostMessage

(***************************************************************************)
(* The specifications.                                                     *)
(***************************************************************************)
\* The initial state of the components a specification leaves at rest.
(***************************************************************************)
(* The legacy entry point, main.cpp: the render target and the brush held  *)
(* in the statics s_pRenderTarget and s_pBrush.  A pointer is "null",      *)
(* "live" (it points to an object that exists) or "released" (it still     *)
(* holds the address of an object whose Release has been called).  A call  *)
(* through a pointer that is not live is undefined: the process may stop   *)
(* there, or go on.                                                        *)
(***************************************************************************)
\* One call through a static: the function making it, the static, whether
\* it is a use of the object or its Release, and what the pointer held.
Deref(by, object, how, was) == [by |-> by, object |-> object, how |-> how, was |-> was]

Undefined(d) == d.was # "live"

\* The first undefined call of a sequence of calls, 0 if there is none.
FirstUndefined(ds) ==
  IF \E i \in 1..Len(ds) : Undefined(ds[i])
  THEN CHOOSE i \in 1..Len(ds) :
         Undefined(ds[i]) /\ \A j \in 1..(i - 1) : ~Undefined(ds[j])
  ELSE 0

\* The outcome of a function: the two pointers after it, its HRESULT as
\* SUCCEEDED(hr), and the calls it makes through the pointers, in order.
D2D(rt, br, ok, ds) == [rt |-> rt, br |-> br, ok |-> ok, ds |-> ds]

\* HRESULT CreateDeviceResources(); targetOk, brushOk and textOk are the
\* results of CreateHwndRenderTarget, CreateSolidColorBrush and
\* mj::TextEditCreateDeviceResources.
CreateDeviceResources(rt, br, targetOk, brushOk, textOk) ==
  IF rt = "null"
  THEN IF targetOk
       THEN D2D("live", IF brushOk THEN "live" ELSE "null", brushOk /\ textOk,
                <<Deref("CreateDeviceResources", "s_pRenderTarget", "use", "live")>>)
       ELSE D2D("null", br, FALSE, <<>>)
  ELSE D2D(rt, br, textOk, <<>>)

\* HRESULT DrawD2DContent(); occluded and endDrawOk are the results of
\* CheckWindowState and EndDraw.  The released pointers keep their value.
DrawD2DContent(rt, br, targetOk, brushOk, textOk, occluded, endDrawOk) ==
  LET c  == CreateDeviceResources(rt, br, targetOk, brushOk, textOk)
      ok == c.ok /\ (occluded \/ endDrawOk)
      Use(object, was) == Deref("DrawD2DContent", object, "use", was)
      Rel(object, was) == Deref("DrawD2DContent", object, "release", was)
  IN D2D(IF ~ok /\ c.rt # "null" THEN "released" ELSE c.rt,
         IF ~ok /\ c.br # "null" THEN "released" ELSE c.br,
         ok,
         c.ds \o <<Use("s_pRenderTarget", c.rt)>>
              \o (IF ~occluded /\ c.ok THEN <<Use("s_pBrush", c.br)>> ELSE <<>>)
              \o (IF ~ok THEN <<Rel("s_pRenderTarget", c.rt), Rel("s_pBrush", c.br)>>
                         ELSE <<>>))

\* void OnResize(UINT width, UINT height)
OnResize(rt, br) ==
  D2D(rt, br, TRUE,
      IF rt # "null" THEN <<Deref("OnResize", "s_pRenderTarget", "use", rt)>> ELSE <<>>)

\* void ReleaseResources(): SAFE_RELEASE of the render target and the brush.
ReleaseResources(rt, br) ==
  D2D(IF rt # "null" THEN "released" ELSE rt,
      IF br # "null" THEN "released" ELSE br,
      TRUE,
      (IF rt # "null" THEN <<Deref("ReleaseResources", "s_pRenderTarget", "release", rt)>>
                      ELSE <<>>)
      \o (IF br # "null" THEN <<Deref("ReleaseResources", "s_pBrush", "release", br)>>
                         ELSE <<>>))

\* The function with outcome r runs while the entry point is at `at`, and
\* leaves it at `to`; where a call of r is undefined, the process either
\* stops at the first such call or goes on.
Runs(at, r, to) ==
  /\ phase = at
  /\ \E stops \in BOOLEAN :
       IF stops /\ FirstUndefined(r.ds) # 0
       THEN /\ derefs' = derefs \cup {r.ds[i] : i \in 1..FirstUndefined(r.ds)}
            /\ phase' = "stopped"
            /\ UNCHANGED <<s_pRenderTarget, s_pBrush>>
       ELSE /\ ~stops
            /\ derefs' = derefs \cup {r.ds[i] : i \in 1..Len(r.ds)}
            /\ phase' = to
            /\ s_pRenderTarget' = r.rt
            /\ s_pBrush' = r.br
  /\ UNCHANGED <<listVars, bufVars, poolVars>>

\* The statics are zero-initialised; WinMainCRTStartup has created the
\* factories and the window.
LegacyInit ==
  /\ s_pRenderTarget = "null"
  /\ s_pBrush = "null"
  /\ phase = "startup"
  /\ derefs = {}

\* hr = DrawD2DContent() of WinMainCRTStartup: the message loop runs only
\* if it succeeded.
InitialDraw ==
  \E targetOk, brushOk, textOk, occluded, endDrawOk \in BOOLEAN :
    LET r == DrawD2DContent(s_pRenderTarget, s_pBrush, targetOk, brushOk, textOk,
                            occluded, endDrawOk)
    IN Runs("startup", r, IF r.ok THEN "loop" ELSE "cleanup")

\* WndProc handles WM_PAINT, WM_DISPLAYCHANGE, WM_CHAR, WM_KEYDOWN or
\* WM_LBUTTONDOWN: DrawD2DContent(), its result ignored.
PaintMessage ==
  \E targetOk, brushOk, textOk, occluded, endDrawOk \in BOOLEAN :
    Runs("loop",
         DrawD2DContent(s_pRenderTarget, s_pBrush, targetOk, brushOk, textOk,
                        occluded, endDrawOk),
         "loop")

\* WndProc handles WM_SIZE.
SizeMessage == Runs("loop", OnResize(s_pRenderTarget, s_pBrush), "loop")

\* GetMessageW returns 0: the loop ends.
QuitMessage == Runs("loop", D2D(s_pRenderTarget, s_pBrush, TRUE, <<>>), "cleanup")

\* ReleaseResources(); ExitProcess(0);
ExitProcess == Runs("cleanup", ReleaseResources(s_pRenderTarget, s_pBrush), "exited")

LegacyNext ==
  \/ InitialDraw
  \/ PaintMessage
  \/ SizeMessage
  \/ QuitMessage
  \/ ExitProcess

AtRest == ListInit /\ PoolInit /\ BufInit /\ LegacyInit /\ end = BufBase + MaxBuf

Next == PoolNext
Spec == AtRest /\ [][Next]_vars

\* Fair scheduling: the scheduler runs every thread that can take a step,
\* the wait reports a port that stays signalled, and window messages do not
\* arrive for ever faster than Run dispatches them, so that every drain of
\* the message queue ends.
Fairness ==
  /\ WF_vars(MainThread)
  /\ SF_vars(WaitIocp)
  /\ \A t \in Tasks : WF_vars(WorkerExecute(t) \/ WorkerPost(t))
  /\ []<>(pc # "message")
FairSpec == Spec /\ Fairness

\* Run on a completion port whose dequeue can fail.
FaultNext ==
  \/ PoolNext
  \/ DequeueAbandoned
  \/ DequeueFails
  \/ WaitFails
  \/ DefaultBreaks
FaultSpec == AtRest /\ [][FaultNext]_vars

\* Fair scheduling with a fair wait and nothing assumed about how fast
\* window messages arrive: the wait reports either source that stays ready.
WaitFairness ==
  /\ WF_vars(MainThread)
  /\ SF_vars(WaitIocp)
  /\ SF_vars(WaitMessage)
  /\ \A t \in Tasks : WF_vars(WorkerExecute(t) \/ WorkerPost(t))
WaitFairSpec == Spec /\ WaitFairness

ListSpec == AtRest /\ [][ListNext]_vars

\* All six mutating calls of ArrayList, Assign included.
AssignNext ==
  \/ ListNext
  \/ DoAssign
AssignSpec == AtRest /\ [][AssignNext]_vars

\* The calls that put elements in a list constructed with an initial
\* capacity.
SeededNext ==
  \/ DoReserve
  \/ DoInsert
  \/ DoAdd
SeededAtRest == SeededStart /\ PoolInit /\ BufInit /\ LegacyInit /\ end = BufBase + MaxBuf
SeededSpec == SeededAtRest /\ [][SeededNext]_vars

\* The legacy entry point from its first draw to ExitProcess.
LegacySpec == AtRest /\ [][LegacyNext]_vars

\* Add calls only, on a list constructed empty.
AddStart == ListStart(MaxAddCap) /\ PoolInit /\ BufInit /\ LegacyInit /\ end = BufBase + MaxBuf
AddNext == DoAdd
AddSpec == AddStart /\ [][AddNext]_vars

\* A buffer of any size up to MaxBuf, the other components at rest.
BufStart == ListInit /\ PoolInit /\ BufInit /\ LegacyInit
BufSpec == BufStart /\ [][BufNext]_vars

(***************************************************************************)
(* Properties of the task lifecycle and the event loop.                    *)
(***************************************************************************)
\* The places of Run after the loop: the deferred calls, then the return.
Teardown == {"exit", "closing", "closed", "unwound", "done"}
\* Run has left the event loop, or the process has ended.
Terminated == pc \in Teardown \cup {"dead"}

\* C1: for every task handed to ThreadpoolSubmitTask, Execute is entered at
\* most once and exactly once by the time the task is Executing or later,
\* OnDone is entered at most once and only while the task is
\* CompletionPending (so after its Execute has returned), and the lifecycle
\* state only ever moves to the next state of Created -> Queued -> Executing
\* -> CompletionPending -> Completed.
C1_TaskLifecycle ==
  /\ [](\A t \in Tasks :
          /\ execCount[t] <= 1
          /\ doneCount[t] <= 1
          /\ (Rank(taskState[t]) >= Rank("Executing")) <=> (execCount[t] = 1)
          /\ (doneCount[t] = 1) => taskState[t] \in {"CompletionPending", "Completed"})
  /\ [][\A t \in Tasks :
          /\ (taskState'[t] # taskState[t])
                => (Rank(taskState'[t]) = Rank(taskState[t]) + 1)
          /\ (doneCount'[t] > doneCount[t]) => (taskState[t] = "CompletionPending")]_vars

\* Two tasks have been completed, each after one Execute and one OnDone,
\* while the third is still executing.
C1_Witness ==
  /\ Cardinality({t \in Tasks : taskState[t] = "Completed" /\ execCount[t] = 1
                                  /\ doneCount[t] = 1}) = 2
  /\ \E t \in Tasks : taskState[t] = "Executing"

\* C2: every OnDone call is made by the main thread from ThreadpoolTaskEnd in
\* the event loop of Run, never by a worker, and at most one OnDone is in
\* progress at any time, however many completions are pending.
C2_OnDoneOnlyInEventLoop ==
  /\ \A d \in doneBy : d.thread = "main" /\ d.at = "taskEnd"
  /\ Cardinality(running) <= 1
  /\ (running # {}) => (running = {pTask} /\ pc \in {"onDone", "dead"})

\* An OnDone is in progress while the two other tasks, whose Execute has
\* returned as well, wait on the port.
C2_Witness ==
  /\ Cardinality(running) = 1
  /\ Len(iocp) = 2
  /\ \A t \in Tasks : taskState[t] = "CompletionPending"

MainUses(t) == pTask = t /\ pc \in {"submit", "taskEnd", "onDone"}

\* C16: the main thread writes the input fields of a task only before the
\* submission and touches no field of it from the submission until its
\* OnDone; the output fields are written only by the task's Execute; so the
\* main thread never uses a task while a worker may (Queued or Executing).
C16_TaskFieldsNotShared ==
  /\ \A a \in touched :
       /\ (a.thread = "main") => a.st \in {"Created", "CompletionPending"}
       /\ (a.thread = "worker") => a.st = "Executing"
       /\ (a.mode = "write" /\ a.field = "in") => (a.thread = "main" /\ a.st = "Created")
       /\ (a.mode = "write" /\ a.field = "out") => (a.thread = "worker" /\ a.st = "Executing")
  /\ \A t \in Tasks : taskState[t] \in {"Queued", "Executing"} => ~MainUses(t)

\* The fields of task 1 have been written by Run, then by Execute, and read
\* by OnDone, which is in progress while another task is executing.
C16_Witness ==
  /\ \E a \in touched : a.task = 1 /\ a.thread = "main" /\ a.mode = "write"
  /\ \E a \in touched : a.task = 1 /\ a.thread = "worker" /\ a.mode = "write"
  /\ \E a \in touched : a.task = 1 /\ a.thread = "main" /\ a.mode = "read"
  /\ MainUses(1)
  /\ \E t \in Tasks : taskState[t] = "Executing"

\* C17: every output field an OnDone reads holds what the Execute of that
\* task stored, and nothing is handed to the main-thread collaborators for a
\* task before its OnDone has begun.
C17_OutputsSeenAtCompletion ==
  \A p \in provided :
    /\ p.value = Made(p.task)
    /\ p.st = "CompletionPending"
    /\ doneCount[p.task] >= 1
    /\ \E i \in 1..Len(ended) : ended[i] = p.task

\* One task has handed on its resource while the Execute of another has not
\* stored its output yet.
C17_Witness ==
  /\ provided # {}
  /\ \E t \in Tasks : taskState[t] = "Executing" /\ out[t] = Unset

\* C18: the loop enters the IOCP case only from the wait, with a packet
\* queued; there it takes exactly one packet, the oldest, begins the OnDone
\* of the task that packet names and of no other, and goes back to the
\* wait; until teardown packets are taken nowhere else, and OnDone calls
\* begin nowhere else.
C18_OneCompletionPerReport ==
  [][/\ (pc # "iocp" /\ pc' = "iocp") => (pc = "wait" /\ iocp # <<>>)
     /\ (pc = "iocp" /\ pc' \notin {"iocp", "dead"}) =>
          /\ iocp # <<>>
          /\ iocp' = Tail(iocp)
          /\ pTask' = Head(iocp)
          /\ pc' = "taskEnd"
          /\ ended' = ended
     /\ (pc = "taskEnd" /\ pc' \notin {"taskEnd", "dead"}) =>
          /\ ended' = Append(ended, pTask)
          /\ pTask' = pTask
          /\ pc' = "onDone"
     /\ (pc = "onDone" /\ pc' \notin {"onDone", "dead"}) =>
          /\ ended' = ended
          /\ pc' = "wait"
     /\ (Len(iocp') < Len(iocp) /\ pool' = "up") =>
          (pc = "iocp" /\ Len(iocp') = Len(iocp) - 1)
     /\ (ended' # ended) => pc = "taskEnd"]_vars

\* With three packets queued, one report has led to one OnDone, and the
\* loop waits again with the two other packets still queued.
C18_Witness ==
  /\ pc = "wait"
  /\ Len(ended) = 1
  /\ Len(iocp) = 2
  /\ running = {}
  /\ taskState[ended[1]] = "Completed"

\* C19: the loop enters the message case only from the wait, with a message
\* queued; there it removes and dispatches the messages one by one, oldest
\* first, and goes back to the wait only when the queue is empty; when it
\* removes WM_QUIT it leaves the loop at once, and from then on removes no
\* message and begins no OnDone.
C19_MessageDrain ==
  [][/\ (pc # "message" /\ pc' = "message") => (pc = "wait" /\ msgQueue # <<>>)
     /\ (pc = "message" /\ pc' = "wait") => msgQueue = <<>>
     /\ (Len(msgQueue') < Len(msgQueue)) =>
          /\ pc = "message"
          /\ msgQueue' = Tail(msgQueue)
          /\ msg' = Head(msgQueue)
          /\ pc' = (IF Head(msgQueue) = "WM_QUIT" THEN "exit" ELSE "message")
     /\ (pc = "message" /\ pc' = "exit") => (msgQueue # <<>> /\ Head(msgQueue) = "WM_QUIT")
     /\ (pc \in Teardown) =>
          /\ pc' \in Teardown \cup {"dead"}
          /\ Len(msgQueue') >= Len(msgQueue)
          /\ msg' = msg
          /\ ended' = ended
          /\ doneCount' = doneCount
          /\ \/ iocp' = iocp
             \/ Len(iocp') > Len(iocp)
             \/ (pool' = "destroyed" /\ iocp' = <<>>)]_vars

\* WM_QUIT has been removed with a message queued behind it and a
\* completion packet pending; Run has left the loop.
C19_Witness ==
  /\ pc = "exit"
  /\ msg = "WM_QUIT"
  /\ msgQueue # <<>>
  /\ iocp # <<>>

\* C20: the OnDone calls begin in the order the completion packets were
\* posted, whatever the order of submission, and the messages are removed
\* and dispatched in the order they were queued.
C20_ArrivalOrder ==
  /\ [](/\ Len(ended) <= Len(posted)
        /\ ended = SubSeq(posted, 1, Len(ended)))
  /\ [][/\ (Len(msgQueue') < Len(msgQueue)) =>
             (msg' = Head(msgQueue) /\ msgQueue' = Tail(msgQueue))
        /\ (Len(msgQueue') > Len(msgQueue)) =>
             (msgQueue = SubSeq(msgQueue', 1, Len(msgQueue)))]_vars

\* The tasks have ended in the order 3, 1, 2 in which their packets were
\* posted, and WM_APP has been dispatched before the WM_USER queued behind it.
C20_Witness ==
  /\ posted = <<3, 1, 2>>
  /\ ended = <<3, 1, 2>>
  /\ msg = "WM_APP"
  /\ msgQueue = <<"WM_USER">>
  /\ pc = "message"

\* The places of the event loop other than the combined wait.
LoopSteps == {"iocp", "taskEnd", "onDone", "message"}

\* C21: in the event loop the main thread waits only in
\* MsgWaitForMultipleObjects: whenever the loop is about to call
\* GetQueuedCompletionStatus a packet is queued on the port, so the call
\* returns at once, and at every other place of the loop the main thread can
\* take its next step.
C21_OnlyTheWaitBlocks ==
  /\ (pc = "iocp") => (iocp # <<>> /\ ENABLED GetQueuedCompletionStatus)
  /\ (pc \in LoopSteps) => ENABLED MainThread

\* The wait has reported the port with two packets queued on it, a message
\* is queued as well, and the first packet has been taken without waiting.
C21_Witness ==
  /\ pc = "taskEnd"
  /\ pTask # NoTask
  /\ Len(iocp) = 1
  /\ msgQueue # <<>>
  /\ Len(posted) = 2 /\ ended = <<>>

\* C22: a task is created or submitted only after ThreadpoolInit, every
\* change of a task's lifecycle state and every Execute and OnDone lies
\* between ThreadpoolInit and the return of ThreadpoolDestroy, every return
\* of Run passes through ThreadpoolDestroy, and once it has returned no task
\* is Queued, Executing or CompletionPending, also when WM_QUIT ended the
\* loop with tasks outstanding.
C22_InitDestroyBracket ==
  /\ [](\A t \in Tasks : (taskState[t] # "None") => (pool # "none"))
  /\ []((pool = "destroyed") => (\A t \in Tasks : taskState[t] \notin Outstanding))
  /\ []((pc \in Teardown \ {"exit"}) => (pool = "destroyed"))
  /\ [][(taskState' # taskState \/ execCount' # execCount \/ doneCount' # doneCount)
           => (pool = "up")]_vars

\* WM_QUIT ended the loop while all three tasks were outstanding; when
\* ThreadpoolDestroy returned they had all been executed and none had had a
\* completion phase.
C22_Witness ==
  /\ pool = "destroyed"
  /\ msg = "WM_QUIT"
  /\ \A t \in Tasks : execCount[t] = 1 /\ doneCount[t] = 0 /\ taskState[t] = "Completed"

C30_FailedDequeueDispatchesNothing ==
  [][/\ (pc = "iocp" /\ pc' \notin {"iocp", "dead"} /\ iocp' = iocp) =>
          (pc' \in {"exit", "wait"} /\ ended' = ended)
     /\ (pc # "taskEnd" /\ pc' = "taskEnd") =>
          /\ iocp # <<>>
          /\ pTask' = Head(iocp)
          /\ iocp' = Tail(iocp)]_vars

\* The loop is about to remove the oldest queued message and dispatch it.
DispatchesMessage == pc = "message" /\ msgQueue # <<>>

\* C27: with a fair wait neither source starves the other: a completion
\* packet waiting on the port is eventually dispatched to its OnDone, however
\* window messages keep arriving, and a queued window message is eventually
\* dispatched, however completions keep arriving (unless Run has left the
\* loop or the process has ended first).
C27_NoStarvation ==
  /\ \A t \in Tasks :
       (taskState[t] = "CompletionPending") ~> (doneCount[t] = 1 \/ Terminated)
  /\ (msgQueue # <<>>) ~> (DispatchesMessage \/ Terminated)

\* C27 as the loop provides it: a queued window message is eventually
\* dispatched, however completions keep arriving; a completion packet is
\* eventually dispatched while messages keep arriving, provided every drain
\* of the message queue comes to an end (the PeekMessageW loop finds the
\* queue empty again and again).
C27_NoStarvationWhenDrainsEnd ==
  /\ ([]<>(pc # "message")) =>
       (\A t \in Tasks :
          (taskState[t] = "CompletionPending") ~> (doneCount[t] = 1 \/ Terminated))
  /\ (msgQueue # <<>>) ~> (DispatchesMessage \/ Terminated)

\* In the middle of a drain, with a message dispatched and another queued,
\* one completion has been dispatched and two more wait on the port.
C27_Witness ==
  /\ DispatchesMessage
  /\ msg \in {"WM_APP", "WM_USER"}
  /\ Len(iocp) = 2
  /\ \E t \in Tasks : doneCount[t] = 1 /\ taskState[t] = "Completed"

\* The places of Run before the message loop.
PreLoop == {"init", "create", "submit", "startup"}

\* C31: no OnDone begins and nothing is handed to svc::Provide* or to
\* MainWindow while Run is before its message loop, whatever packets the
\* workers have posted by then: Run leaves its start-up only into the wait
\* of the loop, and OnDone calls begin only at ThreadpoolTaskEnd in the loop.
C31_NoCompletionBeforeStartup ==
  /\ []((pc \in PreLoop) => (ended = <<>> /\ running = {} /\ provided = {}))
  /\ [][/\ (ended' # ended \/ provided' # provided \/ doneCount' # doneCount) =>
             (pc = "taskEnd" /\ pc' = "onDone")
        /\ (pc \in PreLoop /\ pc' \notin (PreLoop \cup {"dead"})) =>
             (pc = "startup" /\ pc' = "wait")]_vars

\* All three Execute calls have returned and posted their packets while Run
\* is still in its start-up; no OnDone has begun.
C31_Witness ==
  /\ pc = "startup"
  /\ Len(iocp) = NumTasks
  /\ \A t \in Tasks : out[t] = Made(t) /\ doneCount[t] = 0

\* C32: every Free made through the general-purpose allocator, those of
\* MainWindow::Destroy at teardown included, is made while the HeapAllocator
\* local of Run is alive; and at teardown ThreadpoolDestroy runs first, then
\* the port is closed, then MainWindow::Destroy frees the controls.
C32_FreesWhileAllocatorAlive ==
  /\ [](\A f \in frees : f.allocator = "alive")
  /\ [][(frees' # frees) =>
          (pool = "destroyed" /\ pc \notin {"exit", "closing"} /\ pc' = "done")]_vars

\* The places of the message loop of Run (while (true) { ... }).
InLoop == {"wait", "iocp", "taskEnd", "onDone", "message", "default"}

\* PeekMessageW removes WM_QUIT from the UI queue.
QuitRemoved ==
  /\ pc = "message"
  /\ msgQueue # <<>>
  /\ Head(msgQueue) = "WM_QUIT"
  /\ msgQueue' = Tail(msgQueue)

\* C33: the message loop of Run returns if and only if WM_QUIT has been
\* removed from the UI queue or GetQueuedCompletionStatus reports
\* ERROR_ABANDONED_WAIT_0; a wait that fails, and any other result of the
\* wait or of the dequeue, keeps the loop going and leads back to the wait.
C33_ReturnsOnlyOnQuitOrAbandoned ==
  [][/\ (pc \in InLoop /\ pc' = "exit")
          <=> (QuitRemoved \/ (pc = "iocp" /\ failure' = "ERROR_ABANDONED_WAIT_0"))
     /\ (pc = "wait" /\ pc' # pc) => (pc' \in {"iocp", "message", "default", "dead"})
     /\ (pc = "wait" /\ pc' = "default") => (failure' = "WAIT_FAILED")
     /\ (pc = "default" /\ pc' # pc) => (pc' \in {"wait", "dead"})
     /\ (pc \in InLoop /\ pc' \notin InLoop) => (pc' \in {"exit", "dead"})]_vars

\* The wait has failed and the loop is at the wait again.
C33_Witness ==
  /\ pc = "wait"
  /\ failure = "WAIT_FAILED"

\* C34: an ArrayList with Capacity() > 0 has a storage pointer that is not
\* null, also when it was constructed with an initial capacity and the
\* allocation returned null; so no call of Add, Reserve or Insert that puts
\* elements in the list does so through a null storage pointer.
C34_CapacityHasStorage ==
  /\ []((capacity > 0) => (pData # nullptr))
  /\ [][(numElements' > numElements) => (pData' # nullptr)]_vars

\* C35: a Reserve(n) or Insert(position, source, n) that succeeds does so
\* with the sum Size() + n taken in unbounded arithmetic: without growing
\* only when Size() + n <= Capacity(), never with a wrapped sum, so Size()
\* does not decrease and the returned range has n slots inside the capacity.
\* The n of a successful call is what it adds to netCount.
C35_NoSuccessOnWrappedSum ==
  [][(/\ last'.op \in {"Reserve", "Insert"}
      /\ ~IsNull(last'.ret)
      /\ netCount' > netCount)
       => LET n == netCount' - netCount IN
          /\ (~last'.grew) => (numElements + n <= capacity)
          /\ numElements + n <= UintMax
          /\ numElements' >= numElements
          /\ last'.ret.off + n <= capacity']_vars

\* The operations of MemoryBuffer that return a byte range to the caller.
Returning == {"ReserveArrayUnaligned", "NewUnaligned", "NewArrayUnaligned"}

\* C36: for a MemoryBuffer over [begin, begin + size), position stays in
\* [begin, end] while the cursor is not poisoned, and the byte ranges that
\* successful ReserveArrayUnaligned, NewUnaligned and NewArrayUnaligned
\* calls return lie inside [begin, end) and are pairwise disjoint: every
\* returned range lies between the position before the call and the
\* position after it, and the position never moves back.
C36_RangesInsideAndDisjoint ==
  /\ [](Good(TheBuffer) => (bufBegin <= position /\ position <= end))
  /\ [][/\ (lastBuf'.op \in Returning /\ lastBuf'.ret # nullptr)
             => /\ bufBegin <= lastBuf'.ret
                /\ lastBuf'.ret + lastBuf'.need <= end'
                /\ position <= lastBuf'.ret
                /\ lastBuf'.ret + lastBuf'.need <= position'
        /\ Good(Cursor(end', position')) => (position <= position')]_vars

\* C37: in main.cpp, once DrawD2DContent has failed and released the
\* render target and the brush, neither is used or released again before
\* CreateDeviceResources has created it anew, by DrawD2DContent, OnResize or
\* ReleaseResources; and DrawD2DContent makes no call through a render
\* target that could not be created.  So every call through the two
\* pointers finds a live object.
C37_NoUseOfReleasedResources ==
  \A d \in derefs : d.was = "live"

(***************************************************************************)
(* Properties of ArrayList.                                                *)
(***************************************************************************)
EraseNums == 0..(MaxNum + 1)

\* C4: after any sequence of Reserve, Insert, Erase, Add and Clear calls,
\* 0 <= Size() <= Capacity(), and Size() is the number of elements the
\* successful Add / Insert / Reserve calls put in minus the number the
\* successful Erase calls took out since the last Clear.
C4_SizeIsNetCount ==
  /\ 0 <= numElements
  /\ numElements <= capacity
  /\ numElements = netCount

\* C6: when the allocator returns null while Reserve, Insert or Add grows the
\* array, the call reports failure (null / false) and pData, the slot
\* contents, Size() and Capacity() are what they were before the call.
C6_FailedGrowthChangesNothing ==
  [][last'.allocFailed =>
       /\ last'.op \in {"Reserve", "Insert", "Add"}
       /\ (IF last'.op = "Add" THEN last'.ret = FALSE ELSE IsNull(last'.ret))
       /\ pData' = pData
       /\ data' = data
       /\ numElements' = numElements
       /\ capacity' = capacity]_vars

\* A growth has just failed on an array that holds elements.
C6_Witness ==
  /\ last.allocFailed
  /\ numElements >= 1
  /\ pData # nullptr

\* C7: for every position <= Size(), non-null source and n, a successful
\* Insert leaves old[0, position) ++ source[0, n) ++ old[position, oldSize),
\* raises Size() by n and returns a pointer to index position; Insert returns
\* null whenever position is outside [0, Size()] (for every n) or growth fails.
C7_InsertAsClaimed ==
  \A pos \in Positions, num \in Nums, allocOk \in BOOLEAN :
    \A src \in Sources(num) :
      LET L   == TheList
          old == Live(L)
          r   == Insert(L, pos, FALSE, src, num, allocOk)
      IN /\ (pos <= Size(L) /\ ~IsNull(r.ret)) =>
              /\ Live(r.L) = SubSeq(old, 1, pos) \o src \o SubSeq(old, pos + 1, Size(L))
              /\ Size(r.L) = Size(L) + num
              /\ r.ret = Ptr(r.L.pData, pos)
         /\ (pos > Size(L) \/ r.allocFailed) => IsNull(r.ret)

\* C8: for every position < Size() and n with position + n <= Size(), Erase
\* removes exactly the elements [position, position + n), lowers Size() by n
\* and returns a pointer to index position; Erase returns null only when
\* position >= Size().
C8_EraseAsClaimed ==
  \A pos \in Positions, num \in EraseNums :
    LET L   == TheList
        old == Live(L)
        r   == Erase(L, pos, num)
    IN /\ (pos < Size(L) /\ pos + num <= Size(L)) =>
            /\ Live(r.L) = SubSeq(old, 1, pos) \o SubSeq(old, pos + num + 1, Size(L))
            /\ Size(r.L) = Size(L) - num
            /\ r.ret = Ptr(L.pData, pos)
       /\ IsNull(r.ret) => (pos >= Size(L))

\* C9: for every position p and length n with p + n <= Size(), saving the
\* elements [p, p + n), Erase(p, n) and then Insert(p, saved, n) restores the
\* original element sequence and the original Size().
C9_EraseInsertRoundTrip ==
  \A pos \in Positions, num \in EraseNums, allocOk \in BOOLEAN :
    LET L   == TheList
        old == Live(L)
    IN (pos + num <= Size(L)) =>
         LET saved == SubSeq(old, pos + 1, pos + num)
             e     == Erase(L, pos, num)
             r     == Insert(e.L, pos, FALSE, saved, num, allocOk)
         IN /\ Live(r.L) = old
            /\ Size(r.L) = Size(L)

\* C10: for every n, Reserve(n) returns a pointer to the slot at the old
\* Size() and raises Size() by exactly n, growing the capacity when needed;
\* it returns null only when the allocator returned null to the growth.
C10_ReserveAsClaimed ==
  \A num \in Nums, allocOk \in BOOLEAN :
    LET L == TheList
        r == Reserve(L, num, allocOk)
    IN /\ (~IsNull(r.ret)) =>
            /\ r.ret = Ptr(r.L.pData, Size(L))
            /\ Size(r.L) = Size(L) + num
            /\ Size(r.L) <= Capacity(r.L)
       /\ IsNull(r.ret) => r.allocFailed

\* The capacities the doubling policy reaches from capacity c.
Doublings(c) == {(IF c = 0 THEN 4 ELSE 2 * c) * 2 ^ k : k \in 0..UintBits}

CapacityFor(k) ==
  IF k = 0 THEN 0
  ELSE CHOOSE c \in Doublings(0) :
         /\ c >= k
         /\ \A d \in Doublings(0) : d >= k => c <= d

LiveNow == Live(TheList)

\* C12: on a list constructed empty, after k successful Add calls Size() is
\* k, Capacity() is 0 for k = 0 and otherwise the smallest of 4, 8, 16, ...
\* that is >= k, and every successful Add appends its argument to the
\* elements and leaves the earlier ones as they were (so element i is the
\* i-th added value); a failed Add changes nothing.
C12_AddProgression ==
  /\ [](/\ numElements = netCount
        /\ capacity = CapacityFor(netCount))
  /\ [][/\ (last'.ret = TRUE) => (netCount' = netCount + 1
                                   /\ LiveNow' = Append(LiveNow, last'.arg))
        /\ (last'.ret = FALSE) => (netCount' = netCount /\ LiveNow' = LiveNow)]_vars

\* The fifth Add has just grown the capacity from 4 to 8.
C12_Witness ==
  /\ last.op = "Add"
  /\ last.grew
  /\ numElements = 5
  /\ capacity = 8
  /\ netCount = 5

\* C13: whenever a call moves the array to a new block, the elements
\* [0, oldSize) of the new storage are, in the same order, the elements just
\* before the growth: Expand keeps them, Reserve and Add leave them at their
\* indices, and Insert leaves them in order around the inserted range.
C13_GrowthKeepsElements ==
  /\ \A newCapacity \in (capacity + 1)..heapMax, allocOk \in BOOLEAN :
       LET e == Expand(TheList, newCapacity, allocOk) IN
       e.ok => /\ Size(e.L) = Size(TheList)
               /\ Live(e.L) = LiveNow
               /\ e.L.pData # pData
  /\ \A num \in Nums, allocOk \in BOOLEAN :
       LET r == Reserve(TheList, num, allocOk) IN
       (r.L.pData # pData) => SubSeq(Live(r.L), 1, numElements) = LiveNow
  /\ \A t \in Val, allocOk \in BOOLEAN :
       LET r == Add(TheList, t, allocOk) IN
       (r.L.pData # pData) => SubSeq(Live(r.L), 1, numElements) = LiveNow
  /\ \A pos \in Positions, num \in Nums, allocOk \in BOOLEAN :
       \A src \in Sources(num) :
         LET r == Insert(TheList, pos, FALSE, src, num, allocOk) IN
         (r.L.pData # pData) =>
            SubSeq(Live(r.L), 1, pos)
              \o SubSeq(Live(r.L), pos + num + 1, Size(r.L)) = LiveNow

\* A call has just moved a non-empty array to a block of three slots, all
\* of them written.
C13_Witness ==
  /\ numElements = 3
  /\ capacity = 3
  /\ last.grew
  /\ \A i \in 1..3 : data[i] \in Val
  /\ data[1] # data[2]

\* C29: for every position and n that Insert or Erase accepts, every slot
\* the call reads or writes has its index in [0, Capacity()) of the storage
\* it works on; Erase(position, n) with n > 1 reads no slot at or beyond
\* Capacity().
C29_InsertEraseStayInBlock ==
  /\ \A pos \in Positions, num \in EraseNums :
       ~Erase(TheList, pos, num).oob
  /\ \A pos \in Positions, num \in Nums, allocOk \in BOOLEAN :
       \A src \in Sources(num) :
         ~Insert(TheList, pos, FALSE, src, num, allocOk).oob

\* C25: over any sequence of Reserve, Insert, Erase, Add, Clear and Assign
\* calls Capacity() never decreases, and Clear sets Size() to 0 and leaves
\* the capacity, the storage pointer and the slot contents as they were.
C25_CapacityNeverDecreases ==
  /\ [][capacity' >= capacity]_vars
  /\ [](LET C == Clear(TheList)
        IN /\ Size(C) = 0
           /\ Capacity(C) = capacity
           /\ C.pData = pData
           /\ C.data = data)

\* C28: when the allocation inside Assign(source, length) fails, Assign
\* returns false and the storage pointer, the elements, Size() and
\* Capacity() are what they were; when it succeeds, Assign returns true and
\* the array holds exactly source[0, length) with Size() = length.
C28_AssignAsClaimed ==
  \A length \in Nums, allocOk \in BOOLEAN :
    \A src \in Sources(length) :
      LET L == TheList
          r == Assign(L, src, length, allocOk)
      IN /\ r.allocFailed =>
              /\ r.ret = FALSE
              /\ r.L.pData = L.pData
              /\ Live(r.L) = Live(L)
              /\ Size(r.L) = Size(L)
              /\ Capacity(r.L) = Capacity(L)
         /\ (~r.allocFailed) =>
              /\ r.ret = TRUE
              /\ Live(r.L) = src
              /\ Size(r.L) = length

(***************************************************************************)
(* Properties of MemoryBuffer.                                             *)
(***************************************************************************)
\* The operations that copy to the caller's object t.
ReadOps == {">>", "Read"}

\* The last call has had no effect but the poisoning of the cursor: both
\* pointers are null, it returned null, the memory and the caller's object
\* are what they were.
NoEffectButPoison ==
  /\ position' = nullptr
  /\ end' = nullptr
  /\ lastBuf'.ret = nullptr
  /\ mem' = mem
  /\ ~lastBuf'.oob
  /\ (lastBuf'.op \in ReadOps) => (lastBuf'.t = Object(lastBuf'.need))

\* C5: once an operation on the cursor has failed its size check, Good() is
\* false after every later operation, and every later operation that needs
\* at least one byte fails as well, also when it would have fitted in the
\* space that was left before the failure.
C5_PoisonIsSticky ==
  /\ [](failed => ~Good(TheBuffer))
  /\ [][(failed /\ lastBuf'.need >= 1) => NoEffectButPoison]_vars

\* C14: when an operation needs more bytes than SizeLeft(), it copies
\* nothing (the caller's object and the memory stay as they were), builds
\* nothing, returns null if it returns a pointer, and sets position and end
\* to null.
C14_FailureHasNoEffect ==
  [][(lastBuf'.need > SizeLeft(TheBuffer)) => NoEffectButPoison]_vars

\* The bytes at offsets [from, from + n) of the memory are `bytes`, and all
\* other bytes are what they were.
OnlyBytesChanged(from, n, bytes) ==
  \A i \in 1..MaxBuf :
    mem'[i] = (IF i > from /\ i <= from + n THEN bytes[i - from] ELSE mem[i])

\* C15: when SizeLeft() is at least the bytes an operation needs, the
\* operation advances position by exactly that count (so SizeLeft() drops by
\* it), leaves end unchanged, transfers exactly those bytes at the old
\* position (to the caller's object when it reads, from it when it writes,
\* none for Skip and ReserveArrayUnaligned), returns the old position if it
\* returns a pointer, and a good cursor stays good.
C15_SuccessAdvancesExactly ==
  [][(lastBuf'.need <= SizeLeft(TheBuffer)) =>
       LET op   == lastBuf'.op
           need == lastBuf'.need
           from == position - BufBase
       IN /\ position' = position + need
          /\ end' = end
          /\ SizeLeft(TheBuffer)' = SizeLeft(TheBuffer) - need
          /\ Good(TheBuffer) => Good(TheBuffer)'
          /\ ~lastBuf'.oob
          /\ (op \in ReadOps) =>
                /\ mem' = mem
                /\ lastBuf'.t = [i \in 1..need |-> mem[from + i]]
          /\ (op = "Write") => OnlyBytesChanged(from, need, Object(need))
          /\ (op = "WriteBytes") => OnlyBytesChanged(from, need, Bytes(need))
          /\ (op \in {"Skip", "ReserveArrayUnaligned"}) => mem' = mem
          /\ (op \in {"NewUnaligned", "NewArrayUnaligned"}) =>
                \A i \in 1..MaxBuf :
                  (i <= from \/ i > from + need) => mem'[i] = mem[i]
          /\ (op \in {"ReserveArrayUnaligned", "NewUnaligned", "NewArrayUnaligned"}) =>
                lastBuf'.ret = position]_vars

\* A 4-byte value has just been written at the beginning of an 8-byte range:
\* SizeLeft() is 4.
C15_Witness ==
  /\ lastBuf.op = "Write"
  /\ lastBuf.need = 4
  /\ lastBuf.fit
  /\ end = BufBase + 8
  /\ position = BufBase + 4
  /\ SizeLeft(TheBuffer) = 4
  /\ \A i \in 1..4 : mem[i] = Object(4)[i]
  /\ \A i \in 5..MaxBuf : mem[i] = NewMemory[i]

\* C26: a cursor constructed over a non-null range is Good() as long as no
\* operation has failed its size check, also when no byte is left
\* (SizeLeft() = 0) and when the range is empty; Good() is false only after
\* a failed operation.
C26_GoodUntilFailure ==
  (~failed) => Good(TheBuffer)

\* The last byte of a range has just been claimed: every operation so far
\* has passed its check and SizeLeft() is 0.
C26_Witness ==
  /\ ~failed
  /\ lastBuf.op # "new" /\ lastBuf.fit /\ lastBuf.need > 0
  /\ end > bufBegin
  /\ SizeLeft(TheBuffer) = 0
  /\ Good(TheBuffer)

====
